---------------------------- MODULE Spec2Model ----------------------------
(***************************************************************************)
(* A model of archmage's CHM module (src/archmage/CHM.py): the archive     *)
(* sources, the memoized accessors of a CHM handle, the entry transformer  *)
(* and the extraction / export operations with their filesystem effects.   *)
(*                                                                         *)
(* Strings are TLA+ strings; a character is a string of length 1.  Paths   *)
(* on the filesystem are POSIX paths.  A Python function whose body binds  *)
(* intermediate results is written as a chain of operators, each taking    *)
(* what the statements before it have computed.                            *)
(***************************************************************************)
EXTENDS Naturals, Integers, Sequences, FiniteSets, TLC

(***************************************************************************)
(* Bounds of the model.                                                    *)
(***************************************************************************)
\* longest archive listing drawn in an initial state
MaxEntries == 3
\* longest page list (targets of the table of contents) drawn
MaxPages == 2
\* most image references drawn for a page
MaxRefs == 2
\* longest page (in tokens) drawn for the entry transformer
MaxTokens == 3

(***************************************************************************)
(* String primitives (Python str methods and the regular expressions the   *)
(* module uses).                                                           *)
(***************************************************************************)
Char(s, i) == SubSeq(s, i, i)

UpperChars == "ABCDEFGHIJKLMNOPQRSTUVWXYZ"
LowerChars == "abcdefghijklmnopqrstuvwxyz"

\* the least and the greatest member of a set of numbers
FirstOf(S) == CHOOSE i \in S : \A j \in S : i <= j
LastOf(S) == CHOOSE i \in S : \A j \in S : j <= i

\* the lower-case letter at the positions I of the alphabet (c when I is empty)
LowerAt(c, I) == IF I = {} THEN c ELSE SubSeq(LowerChars, FirstOf(I), FirstOf(I))

\* str.lower() on one character
LowerChar(c) == LowerAt(c, {i \in 1..Len(UpperChars) : SubSeq(UpperChars, i, i) = c})

\* str.lower()
RECURSIVE Lower(_)
Lower(s) == IF s = "" THEN "" ELSE LowerChar(Head(s)) \o Lower(Tail(s))

\* str.startswith(p)
StartsWith(s, p) == Len(p) <= Len(s) /\ SubSeq(s, 1, Len(p)) = p

\* str.endswith(p)
EndsWith(s, p) ==
    Len(p) <= Len(s) /\ SubSeq(s, Len(s) - Len(p) + 1, Len(s)) = p

\* positions at which the literal p occurs in s
Occurrences(s, p) ==
    {i \in 1..(Len(s) + 1) :
        i + Len(p) - 1 <= Len(s) /\ SubSeq(s, i, i + Len(p) - 1) = p}

\* p in s
Contains(s, p) == Occurrences(s, p) # {}

\* str.count(c) for a single character c
Count(s, c) == Cardinality(Occurrences(s, c))

\* s without the character at position i
CutAt(s, i) == SubSeq(s, 1, i - 1) \o SubSeq(s, i + 1, Len(s))

\* str.replace(c, "", 1): the first occurrence of the character c is removed
ReplaceFirst(s, c) ==
    IF Contains(s, c) THEN CutAt(s, FirstOf(Occurrences(s, c))) ELSE s

\* a path separator for PARENT_RE: "/" or a backslash
IsSep(c) == c = "/" \/ c = "\\"

\* PARENT_RE.search(e): (^|/|\\)\.\.(/|\\|$)
PARENT_RE(e) ==
    \E i \in Occurrences(e, "..") :
        /\ (i = 1 \/ IsSep(Char(e, i - 1)))
        /\ (i + 2 > Len(e) \/ IsSep(Char(e, i + 2)))

\* re.search(pattern, text) for a pattern of ordinary characters and ".",
\* which stands for any character
ReSearch(pattern, text) ==
    \E i \in 1..(Len(text) + 1) :
        /\ i + Len(pattern) - 1 <= Len(text)
        /\ \A k \in 1..Len(pattern) :
               \/ SubSeq(pattern, k, k) = "."
               \/ SubSeq(pattern, k, k) = SubSeq(text, i + k - 1, i + k - 1)

\* re.sub("/+", "/", name)
RECURSIVE CollapseSlashes(_)
CollapseSlashes(name) ==
    IF Len(name) < 2 THEN name
    ELSE IF Head(name) = "/" /\ SubSeq(name, 2, 2) = "/"
         THEN CollapseSlashes(Tail(name))
    ELSE Head(name) \o CollapseSlashes(Tail(name))

RECURSIVE Repeat(_, _)
Repeat(s, n) == IF n = 0 THEN "" ELSE s \o Repeat(s, n - 1)

\* s.rsplit(".", 1)[0]
RSplitDot(s) ==
    IF Contains(s, ".") THEN SubSeq(s, 1, LastOf(Occurrences(s, ".")) - 1) ELSE s

\* x in xs, for a list xs
InSeq(xs, x) == \E i \in 1..Len(xs) : xs[i] = x

(***************************************************************************)
(* os.path on POSIX path strings.                                          *)
(***************************************************************************)
\* p.rfind("/") + 1
LastSlash(p) == IF Contains(p, "/") THEN LastOf(Occurrences(p, "/")) ELSE 0

\* str.rstrip("/")
RECURSIVE RStripSlash(_)
RStripSlash(p) ==
    IF p # "" /\ SubSeq(p, Len(p), Len(p)) = "/"
    THEN RStripSlash(SubSeq(p, 1, Len(p) - 1))
    ELSE p

\* os.path.join(a, b)
PathJoin(a, b) ==
    IF StartsWith(b, "/") THEN b
    ELSE IF a = "" \/ EndsWith(a, "/") THEN a \o b
    ELSE a \o "/" \o b

\* head of os.path.split: all slashes stays, otherwise the trailing ones go
SplitHead(head, stripped) == IF stripped # "" THEN stripped ELSE head

\* os.path.split(p) given i = p.rfind("/") + 1
SplitAt(p, i) ==
    <<SplitHead(SubSeq(p, 1, i), RStripSlash(SubSeq(p, 1, i))),
      SubSeq(p, i + 1, Len(p))>>

\* os.path.split(p): <<head, tail>>
PathSplit(p) == SplitAt(p, LastSlash(p))

\* os.path.dirname(p)
PathDirname(p) == PathSplit(p)[1]

\* os.path.basename(p)
PathBasename(p) == PathSplit(p)[2]

\* the first segment of p, which starts with none of "/", and the rest
RECURSIVE Segments(_)
SegmentsAt(p, i) == <<SubSeq(p, 1, i - 1)>> \o Segments(SubSeq(p, i, Len(p)))

\* the segments of p between its "/" characters, empty ones dropped
Segments(p) ==
    IF p = "" THEN <<>>
    ELSE IF Head(p) = "/" THEN Segments(Tail(p))
    ELSE SegmentsAt(p, FirstOf(Occurrences(p, "/") \cup {Len(p) + 1}))

Parent(loc) == IF loc = <<>> THEN <<>> ELSE SubSeq(loc, 1, Len(loc) - 1)

\* the lexical resolution of "." and ".." in a list of segments
RECURSIVE NormSegments(_, _)
NormSegments(segs, acc) ==
    IF segs = <<>> THEN acc
    ELSE IF Head(segs) = "." THEN NormSegments(Tail(segs), acc)
    ELSE IF Head(segs) = ".."
         THEN NormSegments(Tail(segs), Parent(acc))
    ELSE NormSegments(Tail(segs), Append(acc, Head(segs)))

RECURSIVE JoinSegments(_)
JoinSegments(segs) ==
    IF segs = <<>> THEN "" ELSE "/" \o Head(segs) \o JoinSegments(Tail(segs))

\* the root for the empty path
RootIfEmpty(p) == IF p = "" THEN "/" ELSE p

\* os.path.abspath(p) with the root as the working directory
AbsPath(p) == RootIfEmpty(JoinSegments(NormSegments(Segments(p), <<>>)))

(***************************************************************************)
(* The filesystem.  A location is the sequence of the names from the root  *)
(* to it; dirs is the set of directories, files maps each regular file to  *)
(* its content.  Relative paths are taken from the root.  There are no     *)
(* symbolic links.                                                         *)
(***************************************************************************)
KindAt(fs, loc) ==
    IF loc \in fs.dirs THEN "dir"
    ELSE IF loc \in DOMAIN fs.files THEN "file"
    ELSE "none"

\* The kernel's walk of the segments segs from the directory at cur.  err
\* is "" when every component but the last names a directory.
RECURSIVE Walk(_, _, _)
Walk(fs, cur, segs) ==
    IF segs = <<>> THEN [err |-> "", loc |-> cur]
    ELSE IF KindAt(fs, cur) = "none" THEN [err |-> "ENOENT", loc |-> cur]
    ELSE IF KindAt(fs, cur) = "file" THEN [err |-> "ENOTDIR", loc |-> cur]
    ELSE IF Head(segs) = "." THEN Walk(fs, cur, Tail(segs))
    ELSE IF Head(segs) = ".." THEN Walk(fs, Parent(cur), Tail(segs))
    ELSE Walk(fs, Append(cur, Head(segs)), Tail(segs))

\* what the walk w of the path p has arrived at: [err, loc, kind]
Arrived(fs, p, w) ==
    IF w.err # "" THEN [err |-> w.err, loc |-> w.loc, kind |-> "none"]
    ELSE IF EndsWith(p, "/") /\ KindAt(fs, w.loc) = "file"
         THEN [err |-> "ENOTDIR", loc |-> w.loc, kind |-> "none"]
    ELSE [err |-> "", loc |-> w.loc, kind |-> KindAt(fs, w.loc)]

\* the location a path names
Resolve(fs, p) == Arrived(fs, p, Walk(fs, <<>>, Segments(p)))

\* os.path.exists(p)
PathExists(fs, p) == Resolve(fs, p).kind # "none"

\* os.path.isdir(p)
PathIsDir(fs, p) == Resolve(fs, p).kind = "dir"

\* os.mkdir at the resolved place r: [fs, exc]; exc is the errno name of the
\* OSError raised, or ""
MkdirAt(fs, r) ==
    IF r.err # "" THEN [fs |-> fs, exc |-> r.err]
    ELSE IF r.kind # "none" THEN [fs |-> fs, exc |-> "EEXIST"]
    ELSE [fs |-> [fs EXCEPT !.dirs = @ \cup {r.loc}], exc |-> ""]

\* os.mkdir(p)
Mkdir(fs, p) == MkdirAt(fs, Resolve(fs, p))

\* os.path.split(name), split again when the tail is empty
SplitAgain(s) == IF s[2] = "" THEN PathSplit(s[1]) ELSE s

RECURSIVE Makedirs(_, _)
\* makedirs after the parents were made with the result up
MakedirsSelf(name, tail, up) ==
    IF up.exc \notin {"", "EEXIST"} THEN up
    ELSE IF tail = "." THEN [fs |-> up.fs, exc |-> ""]
    ELSE Mkdir(up.fs, name)

\* makedirs given s = <<head, tail>>
MakedirsSplit(fs, name, s) ==
    IF s[1] # "" /\ s[2] # "" /\ ~PathExists(fs, s[1])
    THEN MakedirsSelf(name, s[2], Makedirs(fs, s[1]))
    ELSE Mkdir(fs, name)

\* os.makedirs(name) (exist_ok = False)
Makedirs(fs, name) == MakedirsSplit(fs, name, SplitAgain(PathSplit(name)))

\* the filesystem with the regular file at loc holding data
SetFile(fs, loc, data) ==
    [fs EXCEPT !.files = [l \in DOMAIN @ \cup {loc} |->
                             IF l = loc THEN data ELSE @[l]]]

\* open for writing at the resolved place r: [fs, exc, loc]
OpenAt(fs, p, r) ==
    IF r.err # "" THEN [fs |-> fs, exc |-> r.err, loc |-> r.loc]
    ELSE IF r.kind = "dir" \/ EndsWith(p, "/")
         THEN [fs |-> fs, exc |-> "EISDIR", loc |-> r.loc]
    ELSE [fs |-> SetFile(fs, r.loc, <<>>), exc |-> "", loc |-> r.loc]

\* open(p, "wb"): the file is created or truncated
OpenWb(fs, p) == OpenAt(fs, p, Resolve(fs, p))

\* l lies at or beneath top
Under(l, top) == Len(l) >= Len(top) /\ SubSeq(l, 1, Len(top)) = top

\* the filesystem without the directory at top and what lies beneath it
RemoveUnder(fs, top) ==
    [dirs  |-> {l \in fs.dirs : ~Under(l, top)},
     files |-> [l \in {k \in DOMAIN fs.files : ~Under(k, top)} |-> fs.files[l]]]

\* shutil.rmtree(p)
Rmtree(fs, p) == RemoveUnder(fs, Resolve(fs, p).loc)

(***************************************************************************)
(* The state of the program and of its surroundings.                       *)
(*                                                                         *)
(* The bytes of an entry are modelled as a sequence of tokens [t, v]:      *)
(*   "text"      plain content                                             *)
(*   "body"      an opening <body> tag                                     *)
(*   "chrome"    one block of vendor chrome that correct() deletes         *)
(*   "img"       <img src=v>                                               *)
(*   "js"        the frame-restoration script, v the link it writes        *)
(*   "open", "close"  (table of contents) the start and end of a list      *)
(*   "item"      (table of contents) an outline item with target v         *)
(*   "head"      (table of contents) an outline item with no target        *)
(*   "tpl"       a materialized template, v the template file read         *)
(*   "deftopic"  the default topic substituted into a template             *)
(* <<>> is the zero-length byte string b"".                                *)
(***************************************************************************)
VARIABLES
    kind,             \* "file": FileSource, "dir": DirSource (CHM.source)
    listing,          \* what source.listdir() returns, in its order
    stored,           \* the objects of the source: name -> bytes
    auxes,            \* config: the literals of the auxiliary patterns
    filename_case,    \* config
    restore_framing,  \* config
    pc,               \* "new": before CHM(name); "ready"; "done": a call ran
    cache,            \* CHM.cache
    topicstree,       \* CHM.topicstree
    contents,         \* CHM.contents
    fs,               \* the filesystem
    last              \* the last call: what it was, how it ended, what it did

vars == <<kind, listing, stored, auxes, filename_case, restore_framing,
          pc, cache, topicstree, contents, fs, last>>

Tok(t, v) == [t |-> t, v |-> v]

\* Python's None, and a value that is not None
None == [none |-> TRUE, data |-> <<>>]
Some(d) == [none |-> FALSE, data |-> d]

\* the errno names of the OSErrors of the model
OSErrors == {"ENOENT", "ENOTDIR", "EEXIST", "EISDIR"}

(***************************************************************************)
(* The two sources.                                                        *)
(***************************************************************************)
\* FileSource.get(name): [exc, val]; None for a name that does not resolve
\* and for an object of size 0
FileSourceGet(name) ==
    IF name \notin DOMAIN stored THEN [exc |-> "", val |-> None]
    ELSE IF Len(stored[name]) = 0 THEN [exc |-> "", val |-> None]
    ELSE [exc |-> "", val |-> Some(stored[name])]

\* DirSource.get(filename): open() raises for a file that is not there
DirSourceGet(filename) ==
    IF filename \notin DOMAIN stored THEN [exc |-> "ENOENT", val |-> None]
    ELSE [exc |-> "", val |-> Some(stored[filename])]

\* Entry.read()
EntryRead(name) ==
    IF kind = "dir" THEN DirSourceGet(name) ELSE FileSourceGet(name)

(***************************************************************************)
(* Entry: the transformer.                                                 *)
(***************************************************************************)
\* re.search("(?i)\\.html?$", name)
IsHtmlName(name) ==
    EndsWith(Lower(name), ".htm") \/ EndsWith(Lower(name), ".html")

\* Entry.lower_links(text): every href= / src= attribute is lower-cased
lower_links(text) ==
    [i \in 1..Len(text) |->
        IF text[i].t = "img" THEN Tok("img", Lower(text[i].v)) ELSE text[i]]

\* re.sub(b"(?i)<\\s*body\\s*>", js, text)
RECURSIVE InsertAfterBody(_, _)
InsertAfterBody(text, js) ==
    IF text = <<>> THEN <<>>
    ELSE IF Head(text).t = "body"
         THEN <<Head(text), js>> \o InsertAfterBody(Tail(text), js)
    ELSE <<Head(text)>> \o InsertAfterBody(Tail(text), js)

\* the script for the name n, whose slashes were collapsed
RestoreFramingJs(frontpage, n) ==
    Tok("js", Repeat("../", Count(n, "/")) \o frontpage \o "?page=" \o n)

\* Entry.add_restoreframing_js(name, text), frontpage being self.frontpage
add_restoreframing_js(frontpage, name, text) ==
    InsertAfterBody(text, RestoreFramingJs(frontpage, CollapseSlashes(name)))

\* the re.sub calls of correct() that delete the vendor chrome
StripChrome(text) == SelectSeq(text, LAMBDA k : k.t # "chrome")

\* if self.filename_case: data = self.lower_links(data)
CaseLinks(data) == IF filename_case THEN lower_links(data) ELSE data

\* if self.restore_framing: data = self.add_restoreframing_js(self.name[1:], data)
Framed(frontpage, name, data) ==
    IF restore_framing
    THEN add_restoreframing_js(frontpage, SubSeq(name, 2, Len(name)), data)
    ELSE data

\* correct() on what read() gave
Corrected(name, r) ==
    IF r.exc # "" THEN [exc |-> r.exc, data |-> <<>>]
    ELSE IF r.val.none THEN [exc |-> "", data |-> <<>>]
    ELSE IF IsHtmlName(name)
         THEN [exc |-> "", data |-> StripChrome(CaseLinks(r.val.data))]
    ELSE [exc |-> "", data |-> r.val.data]

\* Entry(source, name, filename_case, restore_framing).correct(): [exc, data]
EntryCorrect(name) == Corrected(name, EntryRead(name))

\* get() on what read() gave, deleting the vendor chrome as correct() does
GotStripped(name, frontpage, r) ==
    IF r.exc # "" THEN [exc |-> r.exc, data |-> <<>>]
    ELSE IF r.val.none THEN [exc |-> "", data |-> <<>>]
    ELSE IF IsHtmlName(name)
         THEN [exc |-> "",
               data |-> StripChrome(Framed(frontpage, name, CaseLinks(r.val.data)))]
    ELSE [exc |-> "", data |-> r.val.data]

\* get() on what read() gave
Got(name, frontpage, r) ==
    IF r.exc # "" THEN [exc |-> r.exc, data |-> <<>>]
    ELSE IF r.val.none THEN [exc |-> "", data |-> <<>>]
    ELSE IF IsHtmlName(name)
         THEN [exc |-> "", data |-> Framed(frontpage, name, CaseLinks(r.val.data))]
    ELSE [exc |-> "", data |-> r.val.data]

\* Entry(source, name, filename_case, restore_framing, frontpage).get();
\* Entry.__init__ keeps os.path.basename(frontpage)
EntryGet(name, frontpage) == Got(name, PathBasename(frontpage), EntryRead(name))

\* the default of Entry.__init__'s frontpage parameter
DefaultFrontpage == "index.html"

(***************************************************************************)
(* The collaborators of archmage.CHMParser and the configuration.          *)
(***************************************************************************)
\* config: maxtoclvl
maxtoclvl == 4

\* os.listdir(self.templates_dir): the regular files of the template directory
TemplateFiles == <<"arch_contents.html", "index.html">>

\* the values v of the tokens of a text
Values(tokens) == [i \in 1..Len(tokens) |-> tokens[i].v]

\* PageLister: the targets of the outline items, in document order; no page
\* for an absent table of contents
PageLister(tree) == Values(SelectSeq(tree.data, LAMBDA k : k.t = "item"))

\* ImageCatcher: the image references of a page, in document order
ImageCatcher(text) == Values(SelectSeq(text, LAMBDA k : k.t = "img"))

\* the deepest nesting of the outline lists of text
RECURSIVE Nesting(_, _, _)
Nesting(text, depth, best) ==
    IF text = <<>> THEN best
    ELSE IF Head(text).t = "open"
         THEN Nesting(Tail(text), depth + 1,
                      IF depth + 1 > best THEN depth + 1 ELSE best)
    ELSE IF Head(text).t = "close" /\ depth > 0
         THEN Nesting(Tail(text), depth - 1, best)
    ELSE Nesting(Tail(text), depth, best)

\* TOCCounter: counter.count after counter.feed(text)
TOCCounter(text) == Nesting(text, 0, 0)

\* SitemapFile(topicstree).parse(): the rendered contents tree, empty for None
SitemapFile(tree) ==
    SelectSeq(tree.data, LAMBDA k : k.t \in {"item", "head", "open", "close"})

(***************************************************************************)
(* CHM: the memoized accessors.  Each takes the cache and gives            *)
(* [c, exc]: the cache after the call and the exception raised ("" for     *)
(* none); the value returned is c[key].  The computation _key gives        *)
(* [c, exc, val].                                                          *)
(***************************************************************************)
\* self.cache[k] = v
Put(c, k, v) == [x \in DOMAIN c \cup {k} |-> IF x = k THEN v ELSE c[x]]

\* self.cache[key] = r.val, unless computing it raised
Store(key, r) ==
    IF r.exc # "" THEN [c |-> r.c, exc |-> r.exc]
    ELSE [c |-> Put(r.c, key, r.val), exc |-> ""]

\* return self.cache[key], for a key the cache holds
Cached(c) == [c |-> c, exc |-> ""]

_entries(c) == [c |-> c, exc |-> "", val |-> listing]

\* entries() computing the listing at every call
entriesAfresh(c) == Store("entries", _entries(c))

entries(c) ==
    IF "entries" \in DOMAIN c THEN Cached(c) ELSE Store("entries", _entries(c))

\* the loop of _frontpage over the entries, from the name and index it holds
RECURSIVE FrontpageLoop(_, _, _)
FrontpageLoop(es, frontpage, index) ==
    IF es = <<>> THEN frontpage
    ELSE IF frontpage = Head(es)
         THEN FrontpageLoop(Tail(es),
                            PathJoin("/", "index" \o ToString(index) \o ".html"),
                            index + 1)
    ELSE FrontpageLoop(Tail(es), frontpage, index)

\* _frontpage on the entries listed by e
FrontpageOf(e) ==
    [c |-> e.c, exc |-> "",
     val |-> FrontpageLoop(e.c["entries"], PathJoin("/", "index.html"), 2)]

_frontpage(c) == FrontpageOf(entries(c))
frontpage(c) ==
    IF "frontpage" \in DOMAIN c THEN Cached(c) ELSE Store("frontpage", _frontpage(c))

\* the first entry whose lower-cased name ends in .hhc, or ""
RECURSIVE FirstHhc(_)
FirstHhc(es) ==
    IF es = <<>> THEN ""
    ELSE IF EndsWith(Lower(Head(es)), ".hhc") THEN Head(es)
    ELSE FirstHhc(Tail(es))

\* the return of _topics: the entry's get()
TopicsGot(f, g) == [c |-> f.c, exc |-> g.exc, val |-> Some(g.data)]

\* Entry(..., frontpage=self.frontpage()).get() for the entry hhc
TopicsFrom(hhc, f) == TopicsGot(f, EntryGet(hhc, f.c["frontpage"]))

\* _topics with the .hhc entry found, "" for none: the loop ends and the
\* function returns None
TopicsOf(e, hhc) ==
    IF hhc = "" THEN [c |-> e.c, exc |-> "", val |-> None]
    ELSE TopicsFrom(hhc, frontpage(e.c))

\* _topics on the entries listed by e
TopicsIn(e) == TopicsOf(e, FirstHhc(e.c["entries"]))

_topics(c) == TopicsIn(entries(c))
topics(c) ==
    IF "topics" \in DOMAIN c THEN Cached(c) ELSE Store("topics", _topics(c))

_html_files(c) == [c |-> c, exc |-> "", val |-> PageLister(topicstree)]
html_files(c) ==
    IF "html_files" \in DOMAIN c THEN Cached(c) ELSE Store("html_files", _html_files(c))

\* out with the members of xs it does not hold yet appended
RECURSIVE AppendNew(_, _)
AppendNew(out, xs) ==
    IF xs = <<>> THEN out
    ELSE IF InSeq(out, Head(xs)) THEN AppendNew(out, Tail(xs))
    ELSE AppendNew(Append(out, Head(xs)), Tail(xs))

\* the loop of _image_urls over the pages: [exc, val]
RECURSIVE ImageUrlsLoop(_, _)
ImageUrlsFed(files, out, r) ==
    IF r.exc # "" THEN [exc |-> r.exc, val |-> out]
    ELSE ImageUrlsLoop(Tail(files), AppendNew(out, ImageCatcher(r.data)))

ImageUrlsLoop(files, out) ==
    IF files = <<>> THEN [exc |-> "", val |-> out]
    ELSE ImageUrlsFed(files, out, EntryCorrect(Head(files)))

ImageUrlsEnd(h, r) == [c |-> h.c, exc |-> r.exc, val |-> r.val]
ImageUrlsOf(h) == ImageUrlsEnd(h, ImageUrlsLoop(h.c["html_files"], <<>>))

_image_urls(c) == ImageUrlsOf(html_files(c))
image_urls(c) ==
    IF "image_urls" \in DOMAIN c THEN Cached(c) ELSE Store("image_urls", _image_urls(c))

\* a dict, as the sequence of its items [k, v] in insertion order
DictHas(d, key) == \E i \in 1..Len(d) : d[i].k = key

\* d.update({key: value})
DictUpdate(d, key, value) ==
    IF DictHas(d, key)
    THEN [i \in 1..Len(d) |-> IF d[i].k = key THEN [k |-> key, v |-> value] ELSE d[i]]
    ELSE Append(d, [k |-> key, v |-> value])

\* the body of the inner loop of _image_files
ImageFilesStep(image_url, entry, out) ==
    IF ReSearch(image_url, Lower(entry)) /\ ~DictHas(out, Lower(entry))
    THEN DictUpdate(out, entry, image_url)
    ELSE out

\* the inner loop of _image_files: one reference against every entry
RECURSIVE ImageFilesInner(_, _, _)
ImageFilesInner(image_url, es, out) ==
    IF es = <<>> THEN out
    ELSE ImageFilesInner(image_url, Tail(es), ImageFilesStep(image_url, Head(es), out))

\* the outer loop of _image_files
RECURSIVE ImageFilesLoop(_, _, _)
ImageFilesLoop(urls, es, out) ==
    IF urls = <<>> THEN out
    ELSE ImageFilesLoop(Tail(urls), es, ImageFilesInner(Head(urls), es, out))

ImageFilesIn(u, e) ==
    [c |-> e.c, exc |-> "",
     val |-> ImageFilesLoop(u.c["image_urls"], e.c["entries"], <<>>)]

ImageFilesOf(u) ==
    IF u.exc # "" THEN [c |-> u.c, exc |-> u.exc, val |-> <<>>]
    ELSE ImageFilesIn(u, entries(u.c))

_image_files(c) == ImageFilesOf(image_urls(c))
image_files(c) ==
    IF "image_files" \in DOMAIN c THEN Cached(c) ELSE Store("image_files", _image_files(c))

\* _deftopic on the pages listed by h
DeftopicOf(h, pages) ==
    IF Len(pages) = 0 THEN [c |-> h.c, exc |-> "IndexError", val |-> ""]
    ELSE IF StartsWith(pages[1], "/")
         THEN [c |-> h.c, exc |-> "", val |-> Lower(ReplaceFirst(pages[1], "/"))]
    ELSE [c |-> h.c, exc |-> "", val |-> Lower(pages[1])]

DeftopicIn(h) == DeftopicOf(h, h.c["html_files"])

_deftopic(c) == DeftopicIn(html_files(c))
deftopic(c) ==
    IF "deftopic" \in DOMAIN c THEN Cached(c) ELSE Store("deftopic", _deftopic(c))

\* os.path.join("/", file) for the files of the template directory
TemplatePaths == [i \in 1..Len(TemplateFiles) |-> PathJoin("/", TemplateFiles[i])]

TemplatesOf(e) ==
    [c |-> e.c, exc |-> "",
     val |-> SelectSeq(TemplatePaths, LAMBDA t : ~InSeq(e.c["entries"], t))]

_templates(c) == TemplatesOf(entries(c))
templates(c) ==
    IF "templates" \in DOMAIN c THEN Cached(c) ELSE Store("templates", _templates(c))

\* counter.count clipped to maxtoclvl
Clip(count) == IF count > maxtoclvl THEN maxtoclvl ELSE count

_toclevels(c) ==
    IF topicstree.none THEN [c |-> c, exc |-> "AttributeError", val |-> 0]
    ELSE [c |-> c, exc |-> "", val |-> Clip(TOCCounter(topicstree.data))]
toclevels(c) ==
    IF "toclevels" \in DOMAIN c THEN Cached(c) ELSE Store("toclevels", _toclevels(c))

(***************************************************************************)
(* CHM: extraction.  A world w is [fs, wlog, c, exc]: the filesystem, the  *)
(* log of the files the running call has opened for writing (what for,     *)
(* the path given to open(), the location it names, the data written),     *)
(* the cache, and the exception that ended the call ("" for none).         *)
(***************************************************************************)
World(f, l, c) == [fs |-> f, wlog |-> l, c |-> c, exc |-> ""]
Raise(w, exc) == [w EXCEPT !.exc = exc]

Written(what, entry, path, loc, data) ==
    [what |-> what, entry |-> entry, path |-> path, loc |-> loc, data |-> data]

\* f.write(d.data) on the file o that open() gave; computing the data may
\* have raised d.exc, and then the file stays empty
WriteOpened(w, what, entry, path, o, d) ==
    IF o.exc # "" THEN Raise(w, o.exc)
    ELSE [fs   |-> SetFile(o.fs, o.loc, d.data),
          wlog |-> Append(w.wlog, Written(what, entry, path, o.loc, d.data)),
          c    |-> w.c,
          exc  |-> d.exc]

\* open(path, "wb").write(d.data)
OpenWrite(w, what, entry, path, d) ==
    WriteOpened(w, what, entry, path, OpenWb(w.fs, path), d)

\* the name extract_entry gives the output file
OutputName(output_file) == ReplaceFirst(Lower(output_file), "/")

\* Entry(...).correct() or Entry(...).get(), as extract_entry calls it
EntryData(entry, correct) ==
    IF correct THEN EntryCorrect(entry) ELSE EntryGet(entry, DefaultFrontpage)

\* extract_entry once the directory of the file was made, with the result mk
ExtractEntryWrite(w, entry, path, correct, mk) ==
    IF mk.exc # "" THEN Raise([w EXCEPT !.fs = mk.fs], mk.exc)
    ELSE IF PathIsDir(mk.fs, path) THEN [w EXCEPT !.fs = mk.fs]
    ELSE OpenWrite([w EXCEPT !.fs = mk.fs], "entry", entry, path,
                   EntryData(entry, correct))

\* if dname and not os.path.exists(dname): os.makedirs(dname)
MakeDname(f, dname) ==
    IF dname # "" /\ ~PathExists(f, dname) THEN Makedirs(f, dname)
    ELSE [fs |-> f, exc |-> ""]

\* extract_entry with os.path.join(destdir, fname)
ExtractEntryAt(w, entry, path, correct) ==
    ExtractEntryWrite(w, entry, path, correct, MakeDname(w.fs, PathDirname(path)))

\* CHM.extract_entry(entry, output_file, destdir, correct)
extract_entry(w, entry, output_file, destdir, correct) ==
    ExtractEntryAt(w, entry, PathJoin(destdir, OutputName(output_file)), correct)

\* self.aux_re = "|".join([re.escape(s) for s in self.auxes]);
\* re.match(self.aux_re, e): some literal is a prefix of e.  The pattern
\* of no literal is the empty pattern, which matches every name.
AuxMatch(e) ==
    IF auxes = {} THEN StartsWith(e, "")
    ELSE \E a \in auxes : StartsWith(e, a)

RECURSIVE extract_entries(_, _, _, _)
\* the loop of extract_entries after the entry at the head of es was written
ExtractEntriesNext(r, es, destdir, correct) ==
    IF r.exc # "" THEN r ELSE extract_entries(r, Tail(es), destdir, correct)

\* the body of the loop of extract_entries with the traversal check made
\* after the entry is written
ExtractEntriesStepLate(w, e, es, destdir, correct) ==
    IF AuxMatch(e) THEN extract_entries(w, Tail(es), destdir, correct)
    ELSE IF PARENT_RE(e)
         THEN Raise(extract_entry(w, e, e, destdir, correct), "RuntimeError")
    ELSE ExtractEntriesNext(extract_entry(w, e, e, destdir, correct),
                            es, destdir, correct)

\* the body of the loop for the entry e at the head of es
ExtractEntriesStep(w, e, es, destdir, correct) ==
    IF AuxMatch(e) THEN extract_entries(w, Tail(es), destdir, correct)
    ELSE IF PARENT_RE(e) THEN Raise(w, "RuntimeError")
    ELSE ExtractEntriesNext(extract_entry(w, e, e, destdir, correct),
                            es, destdir, correct)

\* CHM.extract_entries(entries, destdir, correct)
extract_entries(w, es, destdir, correct) ==
    IF es = <<>> THEN w
    ELSE ExtractEntriesStep(w, Head(es), es, destdir, correct)

\* the template get_template has read, filled with the default topic d
TemplateText(tpl, d) ==
    [c |-> d.c, exc |-> d.exc,
     data |-> IF d.exc # "" THEN <<>>
              ELSE <<Tok("tpl", tpl), Tok("deftopic", d.c["deftopic"])>>]

\* get_template with self.frontpage() computed
TemplateFor(name, f) ==
    TemplateText(IF name = f.c["frontpage"] THEN "index.html"
                 ELSE PathBasename(name),
                 deftopic(f.c))

\* CHM.get_template(name): [c, exc, data]
get_template(c, name) == TemplateFor(name, frontpage(c))

\* open(path, "w").write(self.get_template(name)) with the file opened as o
WriteTemplateOpened(w, what, entry, path, o, g) ==
    WriteOpened([w EXCEPT !.c = g.c], what, entry, path, o, g)

WriteTemplateAt(w, what, entry, name, path, o) ==
    IF o.exc # "" THEN Raise(w, o.exc)
    ELSE WriteTemplateOpened(w, what, entry, path, o, get_template(w.c, name))

\* open(path, "w").write(self.get_template(name))
WriteTemplate(w, what, entry, name, path) ==
    WriteTemplateAt(w, what, entry, name, path, OpenWb(w.fs, path))

\* the loop of process_templates over self.templates()
RECURSIVE TemplatesLoop(_, _, _)
TemplatesNext(r, ts, destdir) ==
    IF r.exc # "" THEN r ELSE TemplatesLoop(r, Tail(ts), destdir)

TemplatesLoop(w, ts, destdir) ==
    IF ts = <<>> THEN w
    ELSE TemplatesNext(WriteTemplate(w, "template", Head(ts), Head(ts),
                                     PathJoin(destdir, PathBasename(Head(ts)))),
                       ts, destdir)

\* shutil.copytree(self.icons_dir, icons) with the directory made
IconsCopied(w, path, mk) ==
    IF mk.exc # "" THEN Raise(w, mk.exc)
    ELSE [w EXCEPT !.fs = mk.fs,
                   !.wlog = Append(@, Written("icons", "", path,
                                              Resolve(mk.fs, path).loc, <<>>))]

\* if not os.path.exists(icons): shutil.copytree(self.icons_dir, icons)
CopyIcons(w, path) ==
    IF PathExists(w.fs, path) THEN w
    ELSE IconsCopied(w, path, Makedirs(w.fs, path))

\* the end of process_templates: the icons
IconsStep(r, destdir) ==
    IF r.exc # "" THEN r ELSE CopyIcons(r, PathJoin(destdir, "icons/"))

\* if self.frontpage() not in self.templates(): the frontpage is written
FrontpageWrite(w, ts, fp, destdir) ==
    IF InSeq(ts, fp) THEN w
    ELSE WriteTemplate(w, "frontpage", fp, "index.html",
                       PathJoin(destdir, PathBasename(fp)))

FrontpageNamed(r, ts, f, destdir) ==
    IconsStep(FrontpageWrite([r EXCEPT !.c = f.c], ts, f.c["frontpage"], destdir),
              destdir)

\* process_templates after the loop over the templates ended as r
FrontpageStep(r, ts, destdir) ==
    IF r.exc # "" THEN r ELSE FrontpageNamed(r, ts, frontpage(r.c), destdir)

TemplatesListed(w, t, destdir) ==
    FrontpageStep(TemplatesLoop([w EXCEPT !.c = t.c], t.c["templates"], destdir),
                  t.c["templates"], destdir)

\* CHM.process_templates(destdir)
process_templates(w, destdir) == TemplatesListed(w, templates(w.c), destdir)

\* the except clause of extract.  sys.exit raises SystemExit; an OSError
\* whose errno is not EEXIST is caught and dropped, and extract returns.
ExtractExcept(r) ==
    IF r.exc = "EEXIST" THEN Raise(r, "SystemExit")
    ELSE IF r.exc \in OSErrors THEN Raise(r, "")
    ELSE r

\* self.process_templates(destdir=destdir), reached when nothing was raised
ExtractTemplates(r, destdir) ==
    IF r.exc # "" THEN r ELSE process_templates(r, destdir)

\* self.extract_entries(entries=self.entries(), destdir=destdir)
ExtractListed(w, e, destdir) ==
    ExtractTemplates(extract_entries([w EXCEPT !.c = e.c], e.c["entries"],
                                     destdir, FALSE),
                     destdir)

\* the try block of extract, os.mkdir(destdir) having given mk
ExtractTry(w, mk, destdir) ==
    IF mk.exc # "" THEN Raise(w, mk.exc)
    ELSE ExtractListed([w EXCEPT !.fs = mk.fs], entries(w.c), destdir)

\* CHM.extract(destdir)
extract(w, destdir) == ExtractExcept(ExtractTry(w, Mkdir(w.fs, destdir), destdir))

(***************************************************************************)
(* CHM: the pages as one stream of HTML or of text.  Each page that is put *)
(* out is logged like a written file, with the channel in what.            *)
(***************************************************************************)
\* print(Entry(...).get(), file=output) or chmtotext(input=Entry(...).get(),
\* ...), get() having given d
PageOut(w, e, what, d) ==
    IF d.exc # "" THEN Raise(w, d.exc)
    ELSE [w EXCEPT !.wlog = Append(@, Written(what, e, "", <<>>, d.data))]

\* for e in self.html_files(): an auxiliary page is skipped
RECURSIVE PagesLoop(_, _, _)
PagesNext(r, es, what) == IF r.exc # "" THEN r ELSE PagesLoop(r, es, what)

PagesLoop(w, es, what) ==
    IF es = <<>> THEN w
    ELSE IF AuxMatch(Head(es)) THEN PagesLoop(w, Tail(es), what)
    ELSE PagesNext(PageOut(w, Head(es), what, EntryGet(Head(es), DefaultFrontpage)),
                   Tail(es), what)

\* the loop over self.html_files(), computed as h
PagesListed(w, h, what) ==
    IF h.exc # "" THEN Raise([w EXCEPT !.c = h.c], h.exc)
    ELSE PagesLoop([w EXCEPT !.c = h.c], h.c["html_files"], what)

\* CHM.dump_html(output)
dump_html(w) == PagesListed(w, html_files(w.c), "print")

\* CHM.chm2text(output)
chm2text(w) == PagesListed(w, html_files(w.c), "chmtotext")

(***************************************************************************)
(* CHM: HTML / PDF export through the external compositor.  The result of  *)
(* htmldoc is a world with one more field, calls: the invocations of the   *)
(* compositor, each with the files handed over, the output path, the TOC   *)
(* depth and the filesystem at that moment.                                *)
(***************************************************************************)
\* tempfile.mkdtemp(prefix): a name in the temporary directory that no file has
TempName(prefix) == PathJoin("/tmp", prefix \o "abcdefgh")

\* archmage.file2dir(output): the directory named after the output file
file2dir(output) == RSplitDot(output) \o "_html"

Ended(r, calls) ==
    [fs |-> r.fs, wlog |-> r.wlog, c |-> r.c, exc |-> r.exc, calls |-> calls]

\* htmldoc(files, ...) and shutil.rmtree(path=tempdir); composes tells
\* whether the compositor returns (TRUE) or raises (FALSE)
Compose(r, call, tempdir, composes) ==
    IF composes THEN Ended([r EXCEPT !.fs = Rmtree(@, tempdir)], <<call>>)
    ELSE Ended(Raise(r, "CompositorError"), <<call>>)

\* the call of the compositor, self.toclevels() having given t
HtmldocCall(r, files, out, t, tempdir, composes) ==
    IF t.exc # "" THEN Ended(Raise([r EXCEPT !.c = t.c], t.exc), <<>>)
    ELSE Compose([r EXCEPT !.c = t.c],
                 [files |-> files, output |-> out,
                  toclevels |-> t.c["toclevels"], fs |-> r.fs],
                 tempdir, composes)

\* htmldoc after the images were extracted with the result r
HtmldocImaged(r, files, out, tempdir, composes) ==
    IF r.exc # "" THEN Ended(r, <<>>)
    ELSE HtmldocCall(r, files, out, toclevels(r.c), tempdir, composes)

\* the loops of htmldoc over self.image_files().items(); pdf tells the mode
RECURSIVE ImagesLoop(_, _, _, _)
ImagesNext(r, items, destdir, pdf) ==
    IF r.exc # "" THEN r ELSE ImagesLoop(r, Tail(items), destdir, pdf)

ImagesLoop(w, items, destdir, pdf) ==
    IF items = <<>> THEN w
    ELSE ImagesNext(extract_entry(w, Head(items).k,
                                  IF pdf THEN Lower(Head(items).k)
                                  ELSE Head(items).v,
                                  destdir, FALSE),
                    items, destdir, pdf)

\* os.mkdir(dirname) and the loop over the images, os.mkdir having given mk
HtmlImagesInto(w, items, dirname, mk) ==
    IF mk.exc # "" THEN Raise(w, mk.exc)
    ELSE ImagesLoop([w EXCEPT !.fs = mk.fs], items, dirname, FALSE)

\* the CHM2HTML branch of htmldoc without the test that the image
\* directory exists
HtmlImagesUnchecked(w, items, dirname) ==
    IF Len(items) = 0 THEN w
    ELSE HtmlImagesInto(w, items, dirname, Mkdir(w.fs, dirname))

\* the CHM2HTML branch of htmldoc
HtmlImages(w, items, dirname) ==
    IF Len(items) = 0 THEN w
    ELSE IF PathExists(w.fs, dirname) THEN Raise(w, "SystemExit")
    ELSE HtmlImagesInto(w, items, dirname, Mkdir(w.fs, dirname))

\* the CHM2PDF branch of htmldoc
PdfImages(w, items, tempdir) ==
    IF Len(items) = 0 THEN w ELSE ImagesLoop(w, items, tempdir, TRUE)

\* output = os.path.join(dirname, output), in the CHM2HTML branch with images
OutputPath(output, format, items) ==
    IF format = "CHM2HTML" /\ Len(items) # 0
    THEN PathJoin(file2dir(output), output)
    ELSE output

\* the branches of htmldoc on format
HtmldocImages(w, items, output, format, tempdir) ==
    IF format = "CHM2HTML" THEN HtmlImages(w, items, file2dir(output))
    ELSE PdfImages(w, items, tempdir)

\* htmldoc with self.image_files() computed as im
HtmldocFormat(w, files, im, output, format, tempdir, composes) ==
    IF im.exc # "" THEN Ended(Raise([w EXCEPT !.c = im.c], im.exc), <<>>)
    ELSE HtmldocImaged(HtmldocImages([w EXCEPT !.c = im.c], im.c["image_files"],
                                     output, format, tempdir),
                       files, OutputPath(output, format, im.c["image_files"]),
                       tempdir, composes)

\* files = [os.path.abspath(tempdir + file.lower()) for file in self.html_files()]
TempFiles(tempdir, pages) ==
    [i \in 1..Len(pages) |-> AbsPath(tempdir \o Lower(pages[i]))]

\* htmldoc after the pages were extracted with the result r
HtmldocExtracted(r, pages, output, format, tempdir, composes) ==
    IF r.exc # "" THEN Ended(r, <<>>)
    ELSE HtmldocFormat(r, TempFiles(tempdir, pages), image_files(r.c),
                       output, format, tempdir, composes)

\* self.extract_entries(entries=self.html_files(), destdir=tempdir, correct=True)
HtmldocPages(w, h, output, format, tempdir, composes) ==
    HtmldocExtracted(extract_entries([w EXCEPT !.c = h.c], h.c["html_files"],
                                     tempdir, TRUE),
                     h.c["html_files"], output, format, tempdir, composes)

\* htmldoc with the temporary directory made, mkdtemp having given mk
HtmldocIn(w, mk, output, format, tempdir, composes) ==
    IF mk.exc # "" THEN Ended(Raise(w, mk.exc), <<>>)
    ELSE HtmldocPages([w EXCEPT !.fs = mk.fs], html_files(w.c),
                      output, format, tempdir, composes)

HtmldocTemp(w, output, format, tempdir, composes) ==
    HtmldocIn(w, Mkdir(w.fs, tempdir), output, format, tempdir, composes)

\* CHM.htmldoc(output, format)
htmldoc(w, output, format, composes) ==
    HtmldocTemp(w, output, format, TempName(RSplitDot(output)), composes)

(***************************************************************************)
(* CHM.__init__                                                            *)
(***************************************************************************)
\* self.topicstree: what self.topics() returned, None when it raised
\* AttributeError
TopicsTree(t) == IF t.exc = "AttributeError" THEN None ELSE t.c["topics"]

\* [c, exc, topicstree, contents], self.topics() having given t
InitWith(t) ==
    IF t.exc \notin {"", "AttributeError"}
    THEN [c |-> t.c, exc |-> t.exc, topicstree |-> None, contents |-> <<>>]
    ELSE [c |-> t.c, exc |-> "", topicstree |-> TopicsTree(t),
          contents |-> SitemapFile(TopicsTree(t))]

\* CHM.__init__: self.cache = {} and the table of contents
CHMInit == InitWith(topics(<<>>))

(***************************************************************************)
(* The initial states: a source, a configuration and a filesystem, before  *)
(* CHM(name) is called.  The sources are drawn in groups, each around the  *)
(* names that one family of operations turns on.                           *)
(***************************************************************************)
Range(s) == {s[i] : i \in 1..Len(s)}

\* the sequences without repetition of at most n members of S
InjSeqs(S, n) ==
    UNION {{s \in [1..k -> S] : \A i, j \in 1..k : s[i] = s[j] => i = j} : k \in 0..n}

\* the filesystem the program starts in: the temporary directory and two
\* directories that hold a file each
InitialFs ==
    [dirs  |-> {<<>>, <<"tmp">>, <<"old">>, <<"old_html">>},
     files |-> (<<"old", "keep">> :> <<Tok("text", "")>>)
                   @@ (<<"old_html", "keep">> :> <<Tok("text", "")>>)]

\* the bytes of a table of contents that lists pages
TocOf(pages) ==
    <<Tok("open", "")>> \o [i \in 1..Len(pages) |-> Tok("item", pages[i])]
        \o <<Tok("close", "")>>

\* the bytes of a page that refers to the images refs
PageOf(refs) ==
    <<Tok("body", ""), Tok("chrome", ""), Tok("text", "")>>
        \o [i \in 1..Len(refs) |-> Tok("img", refs[i])]

\* the objects of a source that lists names; a name that ends in "/" is a
\* directory of the archive, an object of size 0
StoredOf(names, pages, refs) ==
    [n \in names |->
        IF EndsWith(n, "/") THEN <<>>
        ELSE IF EndsWith(Lower(n), ".hhc") THEN TocOf(pages)
        ELSE IF IsHtmlName(n) THEN PageOf(refs)
        ELSE <<Tok("text", "")>>]

\* os.walk can list names: each is a file, none has a ".." segment and no
\* file lies beneath another
DirRealizable(names) ==
    \A n \in names :
        /\ ~EndsWith(n, "/")
        /\ ".." \notin Range(Segments(n))
        /\ \A m \in names : m # n => ~StartsWith(m, n \o "/")

\* the names of xs that are pages, in the order of xs
HtmlNames(xs) == SelectSeq(xs, IsHtmlName)

NoCall ==
    [op |-> "", arg |-> <<>>, exc |-> "", wlog |-> <<>>, calls |-> <<>>, ret |-> <<>>]

\* the literals of archmage's default configuration
DefaultAuxes == {"/#", "/$"}

\* the names of the entries that extraction is tried on
ExtractNames == {"/t.hhc", "/p.html", "/d", "/d/", "/d/x", "/$/..", "/../e"}

\* the names of the entries that the frontpage is tried on
IndexNames ==
    {"/t.hhc", "/index.html", "/INDEX.HTML", "/index2.html", "/index3.html", "/p.html"}

\* the names of the pages that export is tried on
PageNames == {"/p.html", "/Q.html", "/$q.html", "/../r.html"}

\* an image of an export and the reference of the pages to it: none, a
\* reference by the file name, one by the relative path, an image above the
\* root of the archive, and a reference that spells that name
ExportImages ==
    {[images |-> <<>>, refs |-> <<>>],
     [images |-> <<"/pics/pic.png">>, refs |-> <<"pic.png">>],
     [images |-> <<"/pics/pic.png">>, refs |-> <<"pics/pic.png">>],
     [images |-> <<"/../pic.png">>, refs |-> <<"pic.png">>],
     [images |-> <<"/../pic.png">>, refs |-> <<"/../pic.png">>]}

\* the names of the images and the references to them
ImageNames == {"/Pics/pic.png", "/b/pic.png", "/pics/pic.png"}
RefNames == {"pic.png", "Pic.PNG", "p.c"}

InitCommon ==
    /\ pc = "new"
    /\ cache = <<>>
    /\ topicstree = None
    /\ contents = <<>>
    /\ fs = InitialFs
    /\ last = NoCall

\* sources for extraction: the table of contents lists the pages of the source
InitExtract ==
    /\ listing \in InjSeqs(ExtractNames, MaxEntries)
    /\ kind \in {"file", "dir"}
    /\ auxes \in {DefaultAuxes, {}}
    /\ filename_case = TRUE
    /\ restore_framing = TRUE
    /\ stored = StoredOf(Range(listing), HtmlNames(listing), <<>>)

\* sources for the frontpage
InitIndex ==
    /\ listing \in InjSeqs(IndexNames, MaxEntries)
    /\ kind \in {"file", "dir"}
    /\ auxes = DefaultAuxes
    /\ filename_case = TRUE
    /\ restore_framing = TRUE
    /\ stored = StoredOf(Range(listing), HtmlNames(listing), <<>>)

\* sources for export: a table of contents, the pages it lists (the source
\* holds those that a source can hold) and possibly an image
InitExport ==
    /\ \E pages \in InjSeqs(PageNames, MaxPages) :
       \E image \in ExportImages :
          /\ listing = <<"/t.hhc">> \o SelectSeq(pages, LAMBDA p : ~PARENT_RE(p))
                           \o image.images
          /\ stored = StoredOf(Range(listing), pages, image.refs)
    /\ kind \in {"file", "dir"}
    /\ auxes = DefaultAuxes
    /\ filename_case = TRUE
    /\ restore_framing = TRUE

\* sources for the images: one page with references, and images
InitImages ==
    /\ \E images \in InjSeqs(ImageNames, MaxEntries - 1) :
       \E refs \in InjSeqs(RefNames, MaxRefs) :
          /\ listing = <<"/t.hhc", "/intro.html">> \o images
          /\ stored = StoredOf(Range(listing), <<"/intro.html">>, refs)
    /\ kind = "file"
    /\ auxes = DefaultAuxes
    /\ filename_case \in BOOLEAN
    /\ restore_framing = TRUE

Init ==
    /\ InitExtract \/ InitIndex \/ InitExport \/ InitImages
    /\ kind = "dir" => DirRealizable(Range(listing))
    /\ InitCommon

(***************************************************************************)
(* The operations.  A run constructs the handle and performs one call.     *)
(***************************************************************************)
Config == <<kind, listing, stored, auxes, filename_case, restore_framing>>

\* the state after CHM.__init__ ended as r
Constructed(r) ==
    /\ pc' = IF r.exc = "" THEN "ready" ELSE "done"
    /\ cache' = r.c
    /\ topicstree' = r.topicstree
    /\ contents' = r.contents
    /\ last' = [NoCall EXCEPT !.op = "CHM", !.exc = r.exc]
    /\ UNCHANGED <<Config, fs>>

\* chm = CHM(name)
Construct ==
    /\ pc = "new"
    /\ Constructed(CHMInit)

\* the state after a call that writes ended as the world r
Wrote(op, arg, r, calls) ==
    /\ pc' = "done"
    /\ cache' = r.c
    /\ fs' = r.fs
    /\ last' = [op |-> op, arg |-> arg, exc |-> r.exc, wlog |-> r.wlog,
                calls |-> calls, ret |-> <<>>]
    /\ UNCHANGED <<Config, topicstree, contents>>

\* the state after a call that returns a value ended as r = [c, exc]
Returned(op, arg, r, key) ==
    /\ pc' = "done"
    /\ cache' = r.c
    /\ last' = [op |-> op, arg |-> arg, exc |-> r.exc, wlog |-> <<>>,
                calls |-> <<>>,
                ret |-> IF r.exc = "" THEN <<r.c[key]>> ELSE <<>>]
    /\ UNCHANGED <<Config, topicstree, contents, fs>>

\* the state after a call on an Entry ended as r = [exc, data]
Read(op, arg, r) ==
    /\ pc' = "done"
    /\ last' = [op |-> op, arg |-> arg, exc |-> r.exc, wlog |-> <<>>,
                calls |-> <<>>,
                ret |-> IF r.exc = "" THEN <<r.data>> ELSE <<>>]
    /\ UNCHANGED <<Config, cache, topicstree, contents, fs>>

\* the directories extraction is tried into: a new one and one that exists
DestDirs == {"/out", "/old"}

\* chm.extract(destdir)
Extract ==
    /\ pc = "ready"
    /\ \E destdir \in DestDirs :
          Wrote("extract", <<destdir>>, extract(World(fs, <<>>, cache), destdir), <<>>)

\* the output files export is tried with: the image directory of the first
\* is new, that of the second exists; neither has a space for htmldoc to
\* replace
Outputs == {"book.html", "old.html"}
Formats == {"CHM2HTML", "CHM2PDF"}

\* the state after htmldoc ended as r
Exported(arg, r) == Wrote("htmldoc", arg, r, r.calls)

\* chm.htmldoc(output, format); the compositor returns or raises
Htmldoc ==
    /\ pc = "ready"
    /\ \E output \in Outputs, format \in Formats, composes \in BOOLEAN :
          Exported(<<output, format>>,
                   htmldoc(World(fs, <<>>, cache), output, format, composes))

\* chm.dump_html()
DumpHtml ==
    /\ pc = "ready"
    /\ Wrote("dump_html", <<>>, dump_html(World(fs, <<>>, cache)), <<>>)

\* chm.chm2text()
Chm2text ==
    /\ pc = "ready"
    /\ Wrote("chm2text", <<>>, chm2text(World(fs, <<>>, cache)), <<>>)

\* chm.image_files()
ImageFiles ==
    /\ pc = "ready"
    /\ Returned("image_files", <<>>, image_files(cache), "image_files")

\* chm.frontpage()
Frontpage ==
    /\ pc = "ready"
    /\ Returned("frontpage", <<>>, frontpage(cache), "frontpage")

\* chm.deftopic()
Deftopic ==
    /\ pc = "ready"
    /\ Returned("deftopic", <<>>, deftopic(cache), "deftopic")

\* the names an Entry is made for: one that no source holds, and two others
EntryNames == {"/missing.html", "/p.html", "/d/x"}

\* Entry(chm.source, name, chm.filename_case, chm.restore_framing).get()
EntryGetCall ==
    /\ pc = "ready"
    /\ \E name \in EntryNames :
          Read("get", <<name>>, EntryGet(name, DefaultFrontpage))

\* Entry(chm.source, name, chm.filename_case, chm.restore_framing).correct()
EntryCorrectCall ==
    /\ pc = "ready"
    /\ \E name \in EntryNames :
          Read("correct", <<name>>, EntryCorrect(name))

Next ==
    \/ Construct
    \/ Extract
    \/ Htmldoc
    \/ DumpHtml
    \/ Chm2text
    \/ ImageFiles
    \/ Frontpage
    \/ Deftopic
    \/ EntryGetCall
    \/ EntryCorrectCall

Spec == Init /\ [][Next]_vars

(***************************************************************************)
(* The properties.                                                         *)
(***************************************************************************)
\* the call op has ended
Called(op) == pc = "done" /\ last.op = op

\* the pages of the table of contents: what self.html_files() returns
Pages == PageLister(topicstree)

\* the temporary directory of the htmldoc call that ended
TempDir == TempName(RSplitDot(last.arg[1]))

\* the batch the call that ended handed to extract_entries, and where to
Batch == IF last.op = "extract" THEN listing ELSE Pages
BatchDir == IF last.op = "extract" THEN last.arg[1] ELSE TempDir

\* extract_entries was reached by the call that ended
Batched ==
    \/ Called("extract") /\ ~PathExists(InitialFs, last.arg[1])
    \/ Called("htmldoc")

\* the entries the log l of written files names, in the order of writing
EntriesOf(l) == [k \in 1..Len(l) |-> l[k].entry]

\* C1: every batch handed to extract_entries that holds a name with a
\* parent-directory segment ends the call with the fatal error, whether
\* or not the name also matches an auxiliary pattern (stated here for
\* the auxiliary patterns of the default configuration).
C1_TraversalFatal ==
    (Batched /\ auxes = DefaultAuxes /\ \E i \in 1..Len(Batch) : PARENT_RE(Batch[i]))
        => last.exc = "RuntimeError"

\* the positions of es at which extract_entries meets a traversal entry
\* that it does not skip, none before it
AbortAt(es) ==
    {i \in 1..Len(es) :
        /\ ~AuxMatch(es[i])
        /\ \A j \in 1..i : ~AuxMatch(es[j]) => (PARENT_RE(es[j]) <=> j = i)}

\* the entries of es before position i that are not auxiliary
NonAuxBefore(es, i) == SelectSeq(SubSeq(es, 1, i - 1), LAMBDA e : ~AuxMatch(e))

\* the entry e has a directory at its output path under destdir
OnDirectory(e, destdir) == PathIsDir(fs, PathJoin(destdir, OutputName(e)))

\* C2 (as stated): when extract_entries aborts on a traversal entry at
\* position i, the files written by the call are exactly those of the
\* non-auxiliary entries before i, and nothing else is written afterwards.
C2_WrittenBeforeAbort ==
    (Batched /\ last.exc = "RuntimeError")
        => \E i \in AbortAt(Batch) :
              /\ EntriesOf(last.wlog) = NonAuxBefore(Batch, i)
              /\ \A k \in 1..Len(last.wlog) : last.wlog[k].what = "entry"

\* C2 (amended): when extract_entries aborts on a traversal entry at
\* position i, the files written by the call are exactly those of the
\* non-auxiliary entries before i whose output path is not a directory;
\* nothing is written for position i or later, and no template, frontpage
\* or icons.
C2_WrittenBeforeAbortButDirectories ==
    (Batched /\ last.exc = "RuntimeError")
        => \E i \in AbortAt(Batch) :
              /\ EntriesOf(last.wlog)
                     = SelectSeq(NonAuxBefore(Batch, i),
                                 LAMBDA e : ~OnDirectory(e, BatchDir))
              /\ \A k \in 1..Len(last.wlog) : last.wlog[k].what = "entry"

\* an extract() aborted on a traversal entry that follows a skipped
\* auxiliary entry, a directory and a written entry
C2_Witness ==
    /\ Called("extract")
    /\ last.exc = "RuntimeError"
    /\ Len(listing) = 3
    /\ Len(last.wlog) = 1
    /\ \E j \in 1..2 : AuxMatch(listing[j]) \/ OnDirectory(listing[j], BatchDir)

\* the filesystems f and g hold the same at and beneath the location top
SameUnder(f, g, top) ==
    /\ {l \in f.dirs : Under(l, top)} = {l \in g.dirs : Under(l, top)}
    /\ {l \in DOMAIN f.files : Under(l, top)} = {l \in DOMAIN g.files : Under(l, top)}
    /\ \A l \in DOMAIN f.files : Under(l, top) => f.files[l] = g.files[l]

\* the image directory of the htmldoc call that ended
ImageDir == file2dir(last.arg[1])

\* the htmldoc call that ended was in HTML mode and its image directory
\* was there when it was called
HtmlOnExisting ==
    Called("htmldoc") /\ last.arg[2] = "CHM2HTML" /\ PathExists(InitialFs, ImageDir)

\* the call that ended has computed a map of images that is not empty
ImagesMapped == "image_files" \in DOMAIN cache /\ Len(cache["image_files"]) > 0

\* the call that ended was refused and has left the directory at path alone
RefusedAt(path) ==
    /\ last.exc = "SystemExit"
    /\ last.calls = <<>>
    /\ SameUnder(fs, InitialFs, Resolve(InitialFs, path).loc)

\* C3 (as stated): extract(destdir) on a destdir that exists, and HTML-mode
\* htmldoc when its image directory exists, both end with the fatal
\* 'already exists' error and write nothing inside that directory; htmldoc
\* then never invokes the compositor.
C3_Refused ==
    /\ (Called("extract") /\ PathExists(InitialFs, last.arg[1]))
           => RefusedAt(last.arg[1])
    /\ HtmlOnExisting => RefusedAt(ImageDir)

\* C3 (amended): extract(destdir) on a destdir that exists, and HTML-mode
\* htmldoc that has images to relocate when its image directory exists,
\* both end with the fatal 'already exists' error and write nothing inside
\* that directory; htmldoc then never invokes the compositor.
C3_RefusedWithImages ==
    /\ (Called("extract") /\ PathExists(InitialFs, last.arg[1]))
           => RefusedAt(last.arg[1]) /\ last.wlog = <<>> /\ fs = InitialFs
    /\ (HtmlOnExisting /\ ImagesMapped) => RefusedAt(ImageDir)

\* an HTML-mode htmldoc with images that found its image directory there
C3_Witness == HtmlOnExisting /\ ImagesMapped /\ last.exc = "SystemExit"

\* C4: for both kinds of source and every path the source does not hold,
\* Entry.get() and Entry.correct() return b"" and do not raise.
C4_MissingIsEmpty ==
    (pc = "done" /\ last.op \in {"get", "correct"} /\ last.arg[1] \notin DOMAIN stored)
        => last.exc = "" /\ last.ret = << <<>> >>

\* C5: the temporary directory htmldoc made is gone when htmldoc has
\* ended, however it ended.
C5_TempDirRemoved == Called("htmldoc") => ~PathExists(fs, TempDir)

\* the file handed to the compositor for the page is where the call wrote
\* the page's correct() output, and it was there when the compositor ran
HandedWritten(call, file, page) ==
    /\ StartsWith(file, "/") /\ file = Lower(file)
    /\ Under(Resolve(call.fs, file).loc, Resolve(call.fs, TempDir).loc)
    /\ Resolve(call.fs, file).kind = "file"
    /\ \E k \in 1..Len(last.wlog) :
          /\ last.wlog[k].entry = page
          /\ last.wlog[k].loc = Resolve(call.fs, file).loc
          /\ last.wlog[k].data = EntryCorrect(page).data

\* C6: htmldoc hands the compositor one path per page of the PageList, in
\* its order, each the absolute lower-cased location in the temporary
\* directory where the page's correct() output was written before (stated
\* here for the auxiliary patterns of the default configuration).
C6_FilesHanded ==
    (Called("htmldoc") /\ auxes = DefaultAuxes /\ last.calls # <<>>)
        => /\ Len(last.calls[1].files) = Len(Pages)
           /\ \A i \in 1..Len(Pages) :
                 HandedWritten(last.calls[1], last.calls[1].files[i], Pages[i])

\* the entries of es that the reference matches and claimed does not hold
Unclaimed(ref, es, claimed) ==
    SelectSeq(es, LAMBDA e : ReSearch(ref, Lower(e)) /\ ~DictHas(claimed, e))

\* claimed with the first of the entries found, if any, mapped to ref
ClaimFirst(ref, found, claimed) ==
    IF found = <<>> THEN claimed
    ELSE Append(claimed, [k |-> Head(found), v |-> ref])

\* the map of C7: each reference in turn claims the first entry it matches
\* that no earlier reference has claimed
RECURSIVE FirstMatchMap(_, _, _)
FirstMatchMap(refs, es, claimed) ==
    IF refs = <<>> THEN claimed
    ELSE FirstMatchMap(Tail(refs), es,
                       ClaimFirst(Head(refs), Unclaimed(Head(refs), es, claimed), claimed))

\* C7: image_files maps each reference to at most one entry, the first in
\* listing order that matches it and that no earlier reference claimed.
C7_FirstMatchOnly ==
    (Called("image_files") /\ last.exc = "")
        => /\ \A i, j \in 1..Len(last.ret[1]) :
                 last.ret[1][i].v = last.ret[1][j].v => i = j
           /\ Range(last.ret[1]) = Range(FirstMatchMap(cache["image_urls"], listing, <<>>))

\* the scenario of C8: the page /intro.html refers to Pic.PNG and the
\* archive holds /Pics/pic.png
IntroScenario ==
    /\ listing = <<"/t.hhc", "/intro.html", "/Pics/pic.png">>
    /\ ImageCatcher(stored["/intro.html"]) = <<"Pic.PNG">>

\* C8: a reference matches an entry exactly when, case ignored, it occurs
\* in the entry path as a literal substring; in the scenario the reference
\* list is [Pic.PNG] and image_files resolves it to /Pics/pic.png.
C8_LiteralSubstring ==
    (Called("image_files") /\ last.exc = "")
        => /\ \A i \in 1..Len(last.ret[1]) :
                 Contains(Lower(last.ret[1][i].k), Lower(last.ret[1][i].v))
           /\ IntroScenario
                 => /\ cache["image_urls"] = <<"Pic.PNG">>
                    /\ last.ret[1] = <<[k |-> "/Pics/pic.png", v |-> "Pic.PNG"]>>

\* C9: frontpage() is /index.html when no entry has that path, and for
\* every listing the path it returns is the path of no entry.
C9_FrontpageFree ==
    Called("frontpage")
        => /\ last.exc = ""
           /\ last.ret[1] \notin Range(listing)
           /\ "/index.html" \notin Range(listing) => last.ret[1] = "/index.html"

\* the archive has no table of contents, and no name extraction rejects
NoToc ==
    /\ auxes = DefaultAuxes
    /\ \A i \in 1..Len(listing) :
          ~EndsWith(Lower(listing[i]), ".hhc") /\ ~PARENT_RE(listing[i])

\* the extract that ended returned, with every entry that is not
\* auxiliary and no directory written, and the frontpage
ExtractedAll ==
    /\ last.exc = ""
    /\ \A i \in 1..Len(listing) :
          (~AuxMatch(listing[i]) /\ ~OnDirectory(listing[i], last.arg[1]))
              => \E k \in 1..Len(last.wlog) :
                    last.wlog[k].what = "entry" /\ last.wlog[k].entry = listing[i]
    /\ \E k \in 1..Len(last.wlog) : last.wlog[k].what = "frontpage"

\* C10: with no .hhc entry, CHM(name) succeeds with an empty contents
\* tree, extract on a fresh destdir completes with the entries, templates
\* and frontpage written, and deftopic() and frontpage() do not fail.
C10_NoTocStillWorks ==
    NoToc
        => /\ pc # "new" => (contents = <<>> /\ (last.op = "CHM" => last.exc = ""))
           /\ (Called("extract") /\ last.arg[1] = "/out") => ExtractedAll
           /\ (Called("deftopic") \/ Called("frontpage")) => last.exc = ""

(***************************************************************************)
(* A handle in use: any sequence of calls of the nine memoized accessors   *)
(* on one handle, while the directory behind a DirSource may be given a    *)
(* new file by another process.                                            *)
(***************************************************************************)
\* the keys of CHM.cache
CacheKeys ==
    {"entries", "html_files", "image_urls", "image_files", "topics",
     "deftopic", "frontpage", "templates", "toclevels"}

\* the listings the accessors are tried on
AccessListings ==
    {<<>>, <<"/p.html">>, <<"/t.hhc">>, <<"/t.hhc", "/p.html">>,
     <<"/t.hhc", "/p.html", "/pics/pic.png">>}

InitAccess ==
    /\ listing \in AccessListings
    /\ kind \in {"file", "dir"}
    /\ auxes = DefaultAuxes
    /\ filename_case = TRUE
    /\ restore_framing = TRUE
    /\ stored = StoredOf(Range(listing), HtmlNames(listing), <<"pic.png">>)
    /\ InitCommon

\* the file another process adds to the directory
NewFile == "/index.html"

\* a file appears in the directory of a DirSource
SourceGrows ==
    /\ pc = "ready"
    /\ kind = "dir"
    /\ ~InSeq(listing, NewFile)
    /\ listing' = Append(listing, NewFile)
    /\ stored' = [n \in DOMAIN stored \cup {NewFile} |->
                     IF n = NewFile THEN PageOf(<<>>) ELSE stored[n]]
    /\ UNCHANGED <<kind, auxes, filename_case, restore_framing,
                   pc, cache, topicstree, contents, fs, last>>

\* the state after the accessor key returned or raised as r = [c, exc];
\* the handle stays in use
Accessed(key, r) ==
    /\ cache' = r.c
    /\ last' = [op |-> key, arg |-> <<>>, exc |-> r.exc, wlog |-> <<>>,
                calls |-> <<>>,
                ret |-> IF r.exc = "" THEN <<r.c[key]>> ELSE <<>>]
    /\ UNCHANGED <<Config, pc, topicstree, contents, fs>>

\* chm.entries()
CallEntries ==
    /\ pc = "ready"
    /\ Accessed("entries", entries(cache))

\* chm.html_files()
CallHtmlFiles ==
    /\ pc = "ready"
    /\ Accessed("html_files", html_files(cache))

\* chm.image_urls()
CallImageUrls ==
    /\ pc = "ready"
    /\ Accessed("image_urls", image_urls(cache))

\* chm.image_files(), the handle staying in use
CallImageFiles ==
    /\ pc = "ready"
    /\ Accessed("image_files", image_files(cache))

\* chm.topics()
CallTopics ==
    /\ pc = "ready"
    /\ Accessed("topics", topics(cache))

\* chm.deftopic(), the handle staying in use
CallDeftopic ==
    /\ pc = "ready"
    /\ Accessed("deftopic", deftopic(cache))

\* chm.frontpage(), the handle staying in use
CallFrontpage ==
    /\ pc = "ready"
    /\ Accessed("frontpage", frontpage(cache))

\* chm.templates()
CallTemplates ==
    /\ pc = "ready"
    /\ Accessed("templates", templates(cache))

\* chm.toclevels()
CallToclevels ==
    /\ pc = "ready"
    /\ Accessed("toclevels", toclevels(cache))

NextAccess ==
    \/ Construct
    \/ SourceGrows
    \/ CallEntries
    \/ CallHtmlFiles
    \/ CallImageUrls
    \/ CallImageFiles
    \/ CallTopics
    \/ CallDeftopic
    \/ CallFrontpage
    \/ CallTemplates
    \/ CallToclevels

SpecAccess == InitAccess /\ [][NextAccess]_vars

\* every key of the cache is still there after the step, with its value
KeysKept == \A k \in DOMAIN cache : k \in DOMAIN cache' /\ cache'[k] = cache[k]

\* the accessor called last has returned the value the cache holds
ReturnedCached ==
    (pc = "ready" /\ last.op \in CacheKeys /\ last.exc = "")
        => last.op \in DOMAIN cache /\ last.ret = <<cache[last.op]>>

\* a call of an accessor whose key the cache holds changes nothing but
\* the record of the last call: nothing is computed
NothingComputed ==
    (pc = "ready" /\ last'.op \in DOMAIN cache /\ last' # last)
        => UNCHANGED <<Config, pc, cache, topicstree, contents, fs>>

PageTokens ==
    {Tok("body", ""), Tok("chrome", ""), Tok("text", ""), Tok("img", "Pic.PNG")}

\* the texts of at most n tokens
TextsUpTo(n) == UNION {[1..k -> PageTokens] : k \in 0..n}

InitEntry ==
    /\ listing = <<"/d/x", "/p.html">>
    /\ kind \in {"file", "dir"}
    /\ auxes = DefaultAuxes
    /\ filename_case \in BOOLEAN
    /\ restore_framing \in BOOLEAN
    /\ \E text \in TextsUpTo(MaxTokens) :
          stored = [n \in Range(listing) |->
                       IF n = "/p.html" THEN text ELSE <<Tok("text", "")>>]
    /\ InitCommon

NextEntry ==
    \/ Construct
    \/ EntryGetCall
    \/ EntryCorrectCall

SpecEntry == InitEntry /\ [][NextEntry]_vars

\* the tokens of text that are no t
Without(text, t) == SelectSeq(text, LAMBDA k : k.t # t)

\* text with the image references lower-cased, if filename_case is set
MaybeLowered(text) ==
    [i \in 1..Len(text) |->
        IF filename_case /\ text[i].t = "img"
        THEN Tok("img", Lower(text[i].v)) ELSE text[i]]

\* how many tokens of text are a t
HowMany(text, t) == Len(SelectSeq(text, LAMBDA k : k.t = t))

\* the call op of an Entry for an HTML entry of the source has returned
ReadHtml(op) ==
    /\ Called(op) /\ last.exc = ""
    /\ last.arg[1] \in DOMAIN stored /\ IsHtmlName(last.arg[1])
    /\ Len(stored[last.arg[1]]) > 0

\* C12: for every HTML entry and every setting of filename_case and
\* restore_framing, correct() gives the (optionally lower-cased) content
\* without its vendor chrome and with no frame-restoration snippet; get()
\* gives the (optionally lower-cased) content with every vendor-chrome
\* block kept, and with the snippet after each <body> exactly when
\* restore_framing is set.
C12_Exclusive ==
    /\ ReadHtml("correct")
          => /\ last.ret[1] = Without(MaybeLowered(stored[last.arg[1]]), "chrome")
             /\ HowMany(last.ret[1], "js") = 0
    /\ ReadHtml("get")
          => /\ Without(last.ret[1], "js") = MaybeLowered(stored[last.arg[1]])
             /\ HowMany(last.ret[1], "chrome") = HowMany(stored[last.arg[1]], "chrome")
             /\ HowMany(last.ret[1], "js")
                    = IF restore_framing THEN HowMany(stored[last.arg[1]], "body") ELSE 0

\* get() has returned a page with its vendor chrome and the snippet
C12_Witness ==
    /\ ReadHtml("get")
    /\ HowMany(last.ret[1], "chrome") > 0
    /\ HowMany(last.ret[1], "js") > 0
    /\ HowMany(last.ret[1], "img") > 0

(***************************************************************************)
(* Extraction: the frame-restoration link, the output names, the auxiliary *)
(* patterns, the errors and the templates.                                 *)
(***************************************************************************)
\* the value of frontpage() of the handle
FrontpageValue == frontpage(cache).c["frontpage"]

\* the link that leads from the page name (without its leading slash) up
\* to the file front in the root of the extraction
LinkTo(front, name) ==
    Repeat("../", Count(name, "/")) \o PathBasename(front) \o "?page=" \o name

\* every snippet of the tokens data is the link l
SnippetsAre(data, l) == \A i \in 1..Len(data) : data[i].t = "js" => data[i].v = l

\* the record of a written file is one of an HTML page
PageWritten(rec) == rec.what = "entry" /\ IsHtmlName(rec.entry)

\* C13: for every HTML page that an extract that returns writes with
\* restore_framing set,
\* the link of the snippet is "../" once per folder level of the page,
\* then the name of the frontpage file of that extraction (the value of
\* frontpage(), also when it was renamed to index2.html and so on), then
\* "?page=" and the page path without its leading slash.
C13_SnippetToFrontpage ==
    (Called("extract") /\ last.exc = "" /\ restore_framing /\ auxes = DefaultAuxes)
        => \A k \in 1..Len(last.wlog) :
              PageWritten(last.wlog[k])
                  => SnippetsAre(last.wlog[k].data,
                                 LinkTo(FrontpageValue,
                                        SubSeq(last.wlog[k].entry, 2,
                                               Len(last.wlog[k].entry))))

\* name without one separator at its start, if it starts with one
LeadingStripped(name) ==
    IF StartsWith(name, "/") THEN SubSeq(name, 2, Len(name)) ELSE name

\* where a file with the output name name belongs in destdir
PlaceOf(destdir, name) == PathJoin(destdir, LeadingStripped(Lower(name)))

\* the value of the dict d at key
DictValue(d, key) == d[CHOOSE i \in 1..Len(d) : d[i].k = key].v

\* the record of a written file is one of an image of the map of images
ImageWritten(rec) ==
    /\ rec.what = "entry"
    /\ "image_files" \in DOMAIN cache
    /\ DictHas(cache["image_files"], rec.entry)

\* the htmldoc call that ended was in the mode format
Exporting(format) == Called("htmldoc") /\ last.arg[2] = format

\* C14: for every output name given to extract_entry (the path of an entry
\* in extract, the reference of an image in the relocation of HTML mode),
\* the file is written at the destination directory joined with the
\* lower-cased name without a single leading separator; every other
\* separator of the name is kept.
C14_OutputNamePlaced ==
    /\ Called("extract")
          => \A k \in 1..Len(last.wlog) :
                last.wlog[k].what = "entry"
                    => last.wlog[k].path = PlaceOf(last.arg[1], last.wlog[k].entry)
    /\ Exporting("CHM2HTML")
          => \A k \in 1..Len(last.wlog) :
                ImageWritten(last.wlog[k])
                    => last.wlog[k].path
                           = PlaceOf(ImageDir,
                                     DictValue(cache["image_files"],
                                               last.wlog[k].entry))

\* e starts with one of the configured auxiliary patterns
ConfiguredAux(e) == \E a \in auxes : StartsWith(e, a)

\* the entries that the log l names as written from the archive
EntriesWritten(l) == EntriesOf(SelectSeq(l, LAMBDA rec : rec.what = "entry"))

\* the extract that ended went through to the icons
ExtractedThrough ==
    /\ Called("extract")
    /\ last.exc = ""
    /\ \E k \in 1..Len(last.wlog) : last.wlog[k].what = "icons"

\* C15: extract_entries, dump_html and chm2text skip an entry exactly when
\* its name starts with one of the configured auxiliary patterns, for every
\* configured set, the empty set included (with which nothing is skipped):
\* an extract that goes through writes the entries that start with no
\* pattern and whose output path is no directory, and dump_html and
\* chm2text put out the pages of the TOC that start with no pattern.
C15_SkipsConfigured ==
    /\ ExtractedThrough
          => EntriesWritten(last.wlog)
                 = SelectSeq(listing,
                             LAMBDA e : ~ConfiguredAux(e)
                                            /\ ~OnDirectory(e, last.arg[1]))
    /\ ((Called("dump_html") \/ Called("chm2text")) /\ last.exc = "")
          => EntriesOf(last.wlog) = SelectSeq(Pages, LAMBDA e : ~ConfiguredAux(e))

\* the directory that the htmldoc call that ended relocates the images to
ImageTarget == IF last.arg[2] = "CHM2HTML" THEN ImageDir ELSE TempDir

\* the record rec is of a file at or beneath the directory at path dir,
\* written at a path with no parent-directory segment
KeptInside(rec, dir) ==
    /\ ".." \notin Range(Segments(rec.path))
    /\ Under(rec.loc, Resolve(fs, dir).loc)

\* C16: the relocation of the images in HTML and PDF export never writes
\* outside the directory it relocates to: no image is written at a path
\* with a ".." segment, whether the segment comes from the name of the
\* entry or from the reference to the image.
C16_ImagesInside ==
    Called("htmldoc")
        => \A k \in 1..Len(last.wlog) :
              ImageWritten(last.wlog[k]) => KeptInside(last.wlog[k], ImageTarget)

\* the log l has a record of one of the kinds whats for the entry e
Logged(l, whats, e) == \E k \in 1..Len(l) : l[k].what \in whats /\ l[k].entry = e

\* every entry of the listing that starts with no configured pattern, and
\* at whose output path there is no directory, was written
EntriesDone ==
    \A i \in 1..Len(listing) :
        (~ConfiguredAux(listing[i]) /\ ~OnDirectory(listing[i], last.arg[1]))
            => Logged(last.wlog, {"entry"}, listing[i])

\* every template, the frontpage and the icons are there
TemplatesDone ==
    /\ "templates" \in DOMAIN cache
    /\ \A t \in Range(cache["templates"]) : Logged(last.wlog, {"template"}, t)
    /\ Logged(last.wlog, {"template", "frontpage"}, FrontpageValue)
    /\ PathIsDir(fs, PathJoin(last.arg[1], "icons/"))

\* C17: if extract(destdir) returns normally, then every entry that is not
\* auxiliary has been written and the templates, the frontpage and the
\* icons have been materialized; an error of the filesystem (one entry
\* path being a file and another entry lying beneath it, say) never
\* becomes a normal return with a part of the output.  Stated for the
\* auxiliary patterns of the default configuration.
C17_ReturnMeansComplete ==
    (Called("extract") /\ last.exc = "" /\ auxes = DefaultAuxes)
        => EntriesDone /\ TemplatesDone

\* the record rec is of a template or of the frontpage
TemplateWritten(rec) == rec.what \in {"template", "frontpage"}

\* no template and no frontpage of the log l was opened for writing where
\* an entry of l was written
EntriesSpared(l) ==
    \A j, k \in 1..Len(l) :
        (l[k].what = "entry" /\ TemplateWritten(l[j])) => l[j].loc # l[k].loc

\* C18: the templates and the frontpage that extract writes never
\* overwrite a file that it has written from an entry of the archive,
\* also when the name of an entry differs from the name of a template only
\* by the case of its letters.  Stated for the archives in which the value
\* of frontpage() is not the name of an entry.
C18_TemplatesSpareEntries ==
    (Called("extract") /\ "frontpage" \in DOMAIN cache
                       /\ cache["frontpage"] \notin Range(listing))
        => EntriesSpared(last.wlog)

=============================================================================
